---- MODULE Spec2Model ----
(***************************************************************************)
(* TestHelper (src/utils/helpers.py): the wait-guarded interaction layer   *)
(* over a browser page.  The page is the environment: a DOM that holds,    *)
(* for every selector, the nodes it matches and their flags, and that the  *)
(* page's own scripts change while the helper waits and between its steps. *)
(* Time is discrete: during a wait the engine samples the DOM once per     *)
(* instant, and the DOM changes only as time advances.                     *)
(***************************************************************************)
EXTENDS Integers, Sequences, FiniteSets, TLC

VARIABLES
    dom,              \* the page: selector -> matched nodes and their flags
    pc,               \* position of the caller inside the current call
    op,               \* the TestHelper method being run
    sel,              \* its selector argument
    timeout,          \* its timeout argument
    wstate,           \* wait_for_element's state argument
    locator,          \* local `locator` of wait_for_element / assert_*
    handle,           \* the Locator wait_for_element returned to the method
    wphase,           \* the wait of this call: Unresolved, Polling, ...
    elapsed,          \* instants spent in locator.wait_for
    expElapsed,       \* instants spent in expect(...)
    checkedRead,      \* value locator.is_checked() returned
    issued,           \* Locator methods invoked in this call, with the locator
    outcome,          \* how the call ended: a returned value or a raised error
    metAt,            \* first instant of the wait at which the awaited state held, or -1
    everMet,          \* assertion calls: the expected condition held at some instant
    touched,          \* the page changed the DOM since this call was invoked
    prev,             \* the toggle call that ended just before, the page unchanged since
    page,             \* self.page
    screenshots_dir,  \* self.screenshots_dir
    now,              \* the wall clock read by datetime.now()
    files,            \* paths page.screenshot has written
    shot              \* the last take_screenshot call: arguments and returned path

vars == <<dom, pc, op, sel, timeout, wstate, locator, handle, wphase, elapsed,
          expElapsed, checkedRead, issued, outcome, metAt, everMet, touched, prev,
          page, screenshots_dir, now, files, shot>>

callVars == <<pc, op, sel, timeout, wstate, locator, handle, wphase, elapsed,
              expElapsed, checkedRead, issued, outcome, metAt, everMet, prev>>

shotVars == <<page, screenshots_dir, now, files, shot>>

----------------------------------------------------------------------------
(* Bounds *)

MaxTimeout == 2

MaxNodes == 2

MaxFiles == 2

----------------------------------------------------------------------------
(* The page *)

Selectors == {"#a", "#b"}

WaitStates == {"attached", "detached", "visible", "hidden"}

None == "None"

NoNode == [count |-> 0, visible |-> FALSE, checked |-> FALSE,
           enabled |-> TRUE, text |-> FALSE]

Timeouts == 1..MaxTimeout

\* The nodes a selector matches after one change by the page: a node is
\* attached or detached, or a flag of the matched node flips.  `fields` names
\* the flags the page may flip.
NodeSteps(n, fields) ==
    (IF n.count < MaxNodes THEN {[n EXCEPT !.count = n.count + 1]} ELSE {})
    \cup (IF n.count > 1 THEN {[n EXCEPT !.count = n.count - 1]} ELSE {})
    \cup (IF n.count = 1 THEN {NoNode} ELSE {})
    \cup (IF n.count >= 1
          THEN {[n EXCEPT ![f] = ~n[f]] : f \in fields}
          ELSE {})

DomSteps(d, fields) ==
    UNION {{[d EXCEPT ![s] = m] : m \in NodeSteps(d[s], fields)} : s \in Selectors}

\* locator.wait_for(state=...): the condition the engine polls for.
Satisfies(d, s, st) ==
    CASE st = "attached" -> d[s].count >= 1
      [] st = "detached" -> d[s].count = 0
      [] st = "visible"  -> d[s].count >= 1 /\ d[s].visible
      [] st = "hidden"   -> ~(d[s].count >= 1 /\ d[s].visible)

----------------------------------------------------------------------------
(* The methods *)

ActionOps ==
    {"safe_click", "safe_fill", "safe_type", "safe_select_option",
     "scroll_to_element", "hover_element", "double_click_element",
     "right_click_element", "clear_field", "press_key"}

QueryOps == {"get_text", "get_attribute", "is_checkbox_checked"}

ToggleOps == {"check_checkbox", "uncheck_checkbox"}

ProbeOps == {"is_element_visible", "is_element_present"}

TextAssertOps == {"assert_text_visible"}

ExpectOnlyOps ==
    {"assert_element_visible", "assert_element_enabled", "assert_element_disabled",
     "assert_checkbox_checked", "assert_checkbox_unchecked"}

AssertOps == TextAssertOps \cup ExpectOnlyOps

ElementOps ==
    {"wait_for_element", "count_elements"} \cup ActionOps \cup QueryOps
        \cup ToggleOps \cup ProbeOps

\* The Locator method each method invokes on the locator it holds.
Command(o) ==
    CASE o = "safe_click"           -> "click"
      [] o = "safe_fill"            -> "fill"
      [] o = "safe_type"            -> "type"
      [] o = "safe_select_option"   -> "select_option"
      [] o = "scroll_to_element"    -> "scroll_into_view_if_needed"
      [] o = "hover_element"        -> "hover"
      [] o = "double_click_element" -> "dblclick"
      [] o = "right_click_element"  -> "click_right"
      [] o = "clear_field"          -> "clear"
      [] o = "press_key"            -> "press"
      [] o = "get_text"             -> "text_content"
      [] o = "get_attribute"        -> "get_attribute"
      [] o = "is_checkbox_checked"  -> "is_checked"
      [] o = "check_checkbox"       -> "check"
      [] o = "uncheck_checkbox"     -> "uncheck"
      [] o = "count_elements"       -> "count"

\* Variant: hover_element hovers over self.page.locator(selector) without a wait.
WaitsFirstButHover(o) ==
    o \in ({"wait_for_element"} \cup ActionOps \cup QueryOps \cup ToggleOps
             \cup ProbeOps \cup TextAssertOps) \ {"hover_element"}

\* Variant: the toggles read and toggle self.page.locator(selector) without a wait.
WaitsFirstButToggles(o) ==
    o \in {"wait_for_element"} \cup ActionOps \cup QueryOps \cup ProbeOps
            \cup TextAssertOps

\* Variant: count_elements counts on the locator wait_for_element returns.
WaitsFirstAlsoCount(o) ==
    o \in {"wait_for_element", "count_elements"} \cup ActionOps \cup QueryOps
            \cup ToggleOps \cup ProbeOps \cup TextAssertOps

\* The methods that begin with self.wait_for_element(selector, ...).
WaitsFirst(o) ==
    o \in {"wait_for_element"} \cup ActionOps \cup QueryOps \cup ToggleOps
            \cup ProbeOps \cup TextAssertOps

\* The state a method passes to wait_for_element (st: the caller's argument).
StateArg(o, st) ==
    CASE o = "wait_for_element"   -> st
      [] o = "is_element_visible" -> "visible"
      [] o = "is_element_present" -> "attached"
      [] OTHER                    -> "visible"

Pending == [kind |-> "none", error |-> None, val |-> None, num |-> 0]

Ret(v) == [kind |-> "return", error |-> None, val |-> v, num |-> 0]

RetNum(n) == [kind |-> "return", error |-> None, val |-> "int", num |-> n]

Raise(e) == [kind |-> "raise", error |-> e, val |-> None, num |-> 0]

Bool(b) == IF b THEN "True" ELSE "False"

\* Variant: the probes have no try/except.
OnWaitFailureUncaught(o) == Raise("TimeoutError")

\* Variant: get_text also catches the error, and returns "".
OnWaitFailureGetTextCatches(o) ==
    IF o \in ProbeOps THEN Ret("False")
    ELSE IF o = "get_text" THEN Ret("str")
    ELSE Raise("TimeoutError")

\* What the method does with the TimeoutError of its wait: the probes catch
\* it and return False, every other method lets it propagate.
OnWaitFailure(o) ==
    IF o \in ProbeOps THEN Ret("False") ELSE Raise("TimeoutError")

\* Variant: the probes catch TimeoutError only.
OnWaitErrorTimeoutOnly(o) == Raise("Error")

\* How a method ends when its wait_for_element call raises an error that is
\* not a timeout: the probes' `except Exception` catches it as well.
OnWaitError(o) ==
    IF o \in ProbeOps THEN Ret("False") ELSE Raise("Error")

\* What the method returns once its wait has returned, if it ends there.
OnWaitSuccess(o) ==
    IF o \in ProbeOps THEN Ret("True") ELSE Ret("Locator")

\* Variant: wait_for_element returns the locator without locator.wait_for.
PollFoundNoWait(d, s, st, t, T) == TRUE

\* locator.wait_for returns: the state holds at the instant sampled, within
\* the budget.
PollFound(d, s, st, t, T) == Satisfies(d, s, st) /\ t <= T

\* locator.wait_for raises TimeoutError: the budget is used up.
PollExpired(d, s, st, t, T) == t >= T

\* locator.wait_for keeps polling.
PollAgain(d, s, st, t, T) == ~Satisfies(d, s, st) /\ t < T

\* Variant: no guard, the command is always issued.
NeedsCommandAlways(o, read) == TRUE

\* Variant: uncheck_checkbox carries check_checkbox's guard, `not is_checked()`.
NeedsCommandNotChecked(o, read) == ~read

\* check_checkbox / uncheck_checkbox: the guard around locator.check() /
\* locator.uncheck(), on the value is_checked() returned.
NeedsCommand(o, read) ==
    \/ o = "check_checkbox" /\ ~read
    \/ o = "uncheck_checkbox" /\ read

\* The effect of locator.check() / locator.uncheck() on the page.
Toggled(d, h, o) ==
    IF d[h].count >= 1
    THEN [d EXCEPT ![h].checked = (o = "check_checkbox")]
    ELSE d

\* The condition expect(locator) re-polls for in each assert_* method.
Expected(o, d, s) ==
    CASE o = "assert_text_visible"       -> d[s].count >= 1 /\ d[s].text
      [] o = "assert_element_visible"    -> d[s].count >= 1 /\ d[s].visible
      [] o = "assert_element_enabled"    -> d[s].count >= 1 /\ d[s].enabled
      [] o = "assert_element_disabled"   -> d[s].count >= 1 /\ ~d[s].enabled
      [] o = "assert_checkbox_checked"   -> d[s].count >= 1 /\ d[s].checked
      [] o = "assert_checkbox_unchecked" -> d[s].count >= 1 /\ ~d[s].checked
      [] OTHER                           -> FALSE

NoPrev == [op |-> None, sel |-> None]

\* The call that has just ended, as the next call's predecessor: kept only
\* for a toggle that returned with the page unchanged since it was invoked.
Ended ==
    IF op \in ToggleOps /\ outcome.kind = "return" /\ ~touched
    THEN [op |-> op, sel |-> sel]
    ELSE NoPrev

MainFields == {"visible", "checked"}

AllFields == {"visible", "checked", "enabled", "text"}

----------------------------------------------------------------------------
(* The helper's attributes *)

\* The Page object handed to TestHelper(page, ...).
ThePage == "page"

\* self.page and self.screenshots_dir, as one value.
Self == [page |-> page, screenshots_dir |-> screenshots_dir]

\* Variant: take_screenshot moves the helper into a sub-directory.
SelfAfterShotMovesDir(o, me) ==
    IF o = "take_screenshot"
    THEN [me EXCEPT !.screenshots_dir = me.screenshots_dir \o <<"/">>]
    ELSE me

\* The attributes after method o has run: the methods read self.page and
\* self.screenshots_dir and assign neither, and set no other attribute.
SelfAfter(o, me) == me

SelfStep(o) ==
    /\ page' = SelfAfter(o, Self).page
    /\ screenshots_dir' = SelfAfter(o, Self).screenshots_dir

----------------------------------------------------------------------------
(* The state after TestHelper(page, screenshots_dir) *)

InitCall ==
    /\ pc = "idle"
    /\ op = None
    /\ sel = None
    /\ timeout = 0
    /\ wstate = None
    /\ locator = None
    /\ handle = None
    /\ wphase = None
    /\ elapsed = 0
    /\ expElapsed = 0
    /\ checkedRead = FALSE
    /\ issued = {}
    /\ outcome = Pending
    /\ metAt = -1
    /\ everMet = FALSE
    /\ touched = FALSE
    /\ prev = NoPrev

----------------------------------------------------------------------------
(* A call of a method with a selector *)

Begin(o, s, T, st) ==
    /\ pc = "idle"
    /\ pc' = "called"
    /\ op' = o
    /\ sel' = s
    /\ timeout' = T
    /\ wstate' = IF WaitsFirst(o) THEN StateArg(o, st) ELSE None
    /\ wphase' = IF WaitsFirst(o) THEN "Unresolved" ELSE None
    /\ locator' = None
    /\ handle' = None
    /\ elapsed' = 0
    /\ expElapsed' = 0
    /\ checkedRead' = FALSE
    /\ issued' = {}
    /\ outcome' = Pending
    /\ metAt' = -1
    /\ everMet' = Expected(o, dom, s)
    /\ touched' = FALSE
    /\ prev' = IF o \in ToggleOps THEN prev ELSE NoPrev
    /\ SelfStep(o)
    /\ UNCHANGED <<dom, now, files, shot>>

\* wait_for_element(selector, timeout, state)
InvokeWait ==
    \E s \in Selectors, T \in Timeouts, st \in WaitStates :
        Begin("wait_for_element", s, T, st)

\* safe_click .. press_key, get_text, get_attribute, is_checkbox_checked
InvokeAction ==
    \E o \in ActionOps \cup QueryOps, s \in Selectors, T \in Timeouts :
        Begin(o, s, T, "visible")

\* check_checkbox, uncheck_checkbox
InvokeToggle ==
    \E o \in ToggleOps, s \in Selectors, T \in Timeouts :
        Begin(o, s, T, "visible")

\* is_element_visible, is_element_present
InvokeProbe ==
    \E o \in ProbeOps, s \in Selectors, T \in Timeouts :
        Begin(o, s, T, "visible")

\* count_elements(selector): no timeout argument
InvokeCount ==
    \E s \in Selectors : Begin("count_elements", s, 0, "visible")

\* assert_text_visible .. assert_checkbox_unchecked
InvokeAssert ==
    \E o \in AssertOps, s \in Selectors, T \in Timeouts :
        Begin(o, s, T, "visible")

\* wait_for_element: locator = self.page.locator(selector), then
\* locator.wait_for(...) takes its first sample.
Locate ==
    /\ pc = "called"
    /\ WaitsFirst(op)
    /\ pc' = "polling"
    /\ locator' = sel
    /\ wphase' = "Polling"
    /\ metAt' = IF Satisfies(dom, sel, wstate) THEN 0 ELSE -1
    /\ UNCHANGED <<dom, op, sel, timeout, wstate, handle, elapsed, expElapsed,
                   checkedRead, issued, outcome, everMet, touched, prev, shotVars>>

\* locator.wait_for: an instant passes, during which the page may change.
Tick(fields) ==
    /\ pc = "polling"
    /\ PollAgain(dom, locator, wstate, elapsed, timeout)
    /\ elapsed' = elapsed + 1
    /\ \/ dom' = dom /\ touched' = touched
       \/ dom' \in DomSteps(dom, fields) /\ touched' = TRUE
    /\ metAt' = IF metAt # -1 THEN metAt
                ELSE IF Satisfies(dom', locator, wstate) THEN elapsed' ELSE -1
    /\ everMet' = (everMet \/ Expected(op, dom', sel))
    /\ UNCHANGED <<pc, op, sel, timeout, wstate, locator, handle, wphase,
                   expElapsed, checkedRead, issued, outcome, prev, shotVars>>

\* locator.wait_for returns and wait_for_element returns the locator.
WaitReturn ==
    /\ pc = "polling"
    /\ PollFound(dom, locator, wstate, elapsed, timeout)
    /\ wphase' = "Resolved"
    /\ handle' = locator
    /\ IF op \in {"wait_for_element"} \cup ProbeOps
       THEN pc' = "done" /\ outcome' = OnWaitSuccess(op)
       ELSE pc' = "resolved" /\ outcome' = outcome
    /\ UNCHANGED <<dom, op, sel, timeout, wstate, locator, elapsed, expElapsed,
                   checkedRead, issued, metAt, everMet, touched, prev, shotVars>>

\* locator.wait_for raises TimeoutError.
WaitTimeout ==
    /\ pc = "polling"
    /\ PollExpired(dom, locator, wstate, elapsed, timeout)
    /\ wphase' = "TimedOut"
    /\ pc' = "done"
    /\ outcome' = OnWaitFailure(op)
    /\ UNCHANGED <<dom, op, sel, timeout, wstate, locator, handle, elapsed,
                   expElapsed, checkedRead, issued, metAt, everMet, touched, prev,
                   shotVars>>

\* self.page.locator(selector) raises: the page is closed, or the selector
\* is rejected.
LocateError ==
    /\ pc = "called"
    /\ WaitsFirst(op)
    /\ wphase' = "Failed"
    /\ pc' = "done"
    /\ outcome' = OnWaitError(op)
    /\ UNCHANGED <<dom, op, sel, timeout, wstate, locator, handle, elapsed,
                   expElapsed, checkedRead, issued, metAt, everMet, touched, prev,
                   shotVars>>

\* locator.wait_for raises an error other than TimeoutError, at any instant
\* of the wait.
WaitError ==
    /\ pc = "polling"
    /\ elapsed <= timeout
    /\ wphase' = "Failed"
    /\ pc' = "done"
    /\ outcome' = OnWaitError(op)
    /\ UNCHANGED <<dom, op, sel, timeout, wstate, locator, handle, elapsed,
                   expElapsed, checkedRead, issued, metAt, everMet, touched, prev,
                   shotVars>>

Issue(c, h) == issued \cup {[cmd |-> c, on |-> h]}

\* The statement after the wait, on the locator h.
ActOn(h) ==
    /\ handle' = h
    /\ locator' = h
    /\ \/ /\ op \in ActionOps
          /\ issued' = Issue(Command(op), h)
          /\ outcome' = Ret(None)
          /\ pc' = "done"
          /\ UNCHANGED checkedRead
       \/ /\ op \in {"get_text"}
          /\ issued' = Issue(Command(op), h)
          /\ outcome' = Ret("str")
          /\ pc' = "done"
          /\ UNCHANGED checkedRead
       \/ /\ op \in {"get_attribute"}
          /\ issued' = Issue(Command(op), h)
          /\ \E v \in {"str", None} : outcome' = Ret(v)
          /\ pc' = "done"
          /\ UNCHANGED checkedRead
       \/ /\ op \in {"is_checkbox_checked"}
          /\ issued' = Issue(Command(op), h)
          /\ outcome' = Ret(Bool(dom[h].checked))
          /\ pc' = "done"
          /\ UNCHANGED checkedRead
       \/ /\ op \in {"count_elements"}
          /\ issued' = Issue(Command(op), h)
          /\ outcome' = RetNum(dom[h].count)
          /\ pc' = "done"
          /\ UNCHANGED checkedRead
       \/ /\ op \in ToggleOps
          /\ issued' = Issue("is_checked", h)
          /\ checkedRead' = dom[h].checked
          /\ IF NeedsCommand(op, dom[h].checked)
             THEN pc' = "read" /\ outcome' = outcome
             ELSE pc' = "done" /\ outcome' = Ret(None)
    /\ UNCHANGED <<dom, op, sel, timeout, wstate, wphase, elapsed, expElapsed,
                   metAt, everMet, touched, prev, shotVars>>

\* A method acts on the locator its wait returned.
Act ==
    /\ pc = "resolved"
    /\ op \notin AssertOps
    /\ ActOn(handle)

\* A method without a wait acts on self.page.locator(selector) at once.
ActDirect ==
    /\ pc = "called"
    /\ ~WaitsFirst(op)
    /\ op \notin AssertOps
    /\ ActOn(sel)

\* locator.check() / locator.uncheck()
ToggleCmd ==
    /\ pc = "read"
    /\ issued' = Issue(Command(op), handle)
    /\ dom' = Toggled(dom, handle, op)
    /\ outcome' = Ret(None)
    /\ pc' = "done"
    /\ UNCHANGED <<op, sel, timeout, wstate, locator, handle, wphase, elapsed,
                   expElapsed, checkedRead, metAt, everMet, touched, prev, shotVars>>

\* Variant: the locator is kept on the helper when the call returns.
ReturnKeepsLocator ==
    /\ pc = "done"
    /\ pc' = "idle"
    /\ op' = None
    /\ sel' = None
    /\ timeout' = 0
    /\ wstate' = None
    /\ wphase' = None
    /\ elapsed' = 0
    /\ expElapsed' = 0
    /\ checkedRead' = FALSE
    /\ issued' = {}
    /\ outcome' = Pending
    /\ metAt' = -1
    /\ everMet' = FALSE
    /\ touched' = FALSE
    /\ prev' = Ended
    /\ UNCHANGED <<dom, locator, handle, shotVars>>

\* The caller has the result and moves on: nothing of the call is kept.
Return ==
    /\ pc = "done"
    /\ pc' = "idle"
    /\ op' = None
    /\ sel' = None
    /\ timeout' = 0
    /\ wstate' = None
    /\ locator' = None
    /\ handle' = None
    /\ wphase' = None
    /\ elapsed' = 0
    /\ expElapsed' = 0
    /\ checkedRead' = FALSE
    /\ issued' = {}
    /\ outcome' = Pending
    /\ metAt' = -1
    /\ everMet' = FALSE
    /\ touched' = FALSE
    /\ prev' = Ended
    /\ UNCHANGED <<dom, shotVars>>

\* The page changes while the caller is between two statements or two calls.
PageChange(fields) ==
    /\ pc \in {"idle", "resolved", "read"}
    /\ dom' \in DomSteps(dom, fields)
    /\ touched' = (pc # "idle")
    /\ prev' = IF pc = "idle" THEN NoPrev ELSE prev
    /\ everMet' = (everMet \/ (pc = "resolved" /\ Expected(op, dom', sel)))
    /\ UNCHANGED <<pc, op, sel, timeout, wstate, locator, handle, wphase, elapsed,
                   expElapsed, checkedRead, issued, outcome, metAt, shotVars>>

----------------------------------------------------------------------------
(* The assertions: expect(locator).to_...(timeout=timeout) *)

\* assert_text_visible: expect(...) starts on the locator its wait returned,
\* with the whole timeout again.
ExpectAfterWait ==
    /\ pc = "resolved"
    /\ op \in AssertOps
    /\ pc' = "expecting"
    /\ expElapsed' = 0
    /\ everMet' = (everMet \/ Expected(op, dom, sel))
    /\ UNCHANGED <<dom, op, sel, timeout, wstate, locator, handle, wphase, elapsed,
                   checkedRead, issued, outcome, metAt, touched, prev, shotVars>>

\* assert_element_visible .. assert_checkbox_unchecked: expect(...) starts on
\* self.page.locator(selector).
ExpectDirect ==
    /\ pc = "called"
    /\ ~WaitsFirst(op)
    /\ op \in AssertOps
    /\ pc' = "expecting"
    /\ locator' = sel
    /\ expElapsed' = 0
    /\ UNCHANGED <<dom, op, sel, timeout, wstate, handle, wphase, elapsed,
                   checkedRead, issued, outcome, metAt, everMet, touched, prev,
                   shotVars>>

\* expect(...) finds the condition at the instant sampled.
ExpectPass ==
    /\ pc = "expecting"
    /\ Expected(op, dom, locator)
    /\ expElapsed <= timeout
    /\ pc' = "done"
    /\ outcome' = Ret(None)
    /\ UNCHANGED <<dom, op, sel, timeout, wstate, locator, handle, wphase, elapsed,
                   expElapsed, checkedRead, issued, metAt, everMet, touched, prev,
                   shotVars>>

\* expect(...) re-polls: an instant passes, during which the page may change.
ExpectTick(fields) ==
    /\ pc = "expecting"
    /\ ~Expected(op, dom, locator)
    /\ expElapsed < timeout
    /\ expElapsed' = expElapsed + 1
    /\ \/ dom' = dom /\ touched' = touched
       \/ dom' \in DomSteps(dom, fields) /\ touched' = TRUE
    /\ everMet' = (everMet \/ Expected(op, dom', sel))
    /\ UNCHANGED <<pc, op, sel, timeout, wstate, locator, handle, wphase, elapsed,
                   checkedRead, issued, outcome, metAt, prev, shotVars>>

\* expect(...) raises AssertionError: its budget is used up.
ExpectFail ==
    /\ pc = "expecting"
    /\ expElapsed >= timeout
    /\ pc' = "done"
    /\ outcome' = Raise("AssertionError")
    /\ UNCHANGED <<dom, op, sel, timeout, wstate, locator, handle, wphase, elapsed,
                   expElapsed, checkedRead, issued, metAt, everMet, touched, prev,
                   shotVars>>

----------------------------------------------------------------------------
(* The methods that hand over to the page *)

LoadOps == {"navigate_to", "reload_page", "go_back", "go_forward"}

WaitPageOps == {"wait_for_url", "wait_for_function", "wait_for_load_state"}

ReadPageOps == {"get_current_url", "get_page_title"}

PageOps == LoadOps \cup WaitPageOps \cup ReadPageOps \cup {"execute_script"}

\* wait_for_url and wait_for_function take a timeout and pass it on.
TimedPageOps == {"wait_for_url", "wait_for_function"}

EmptyDocument == [s \in Selectors |-> NoNode]

\* The documents a navigation loads: an empty one, one with a visible "#a",
\* and one with a visible "#a" and a hidden "#b".
Documents ==
    {EmptyDocument,
     [s \in Selectors |->
        IF s = "#a" THEN [NoNode EXCEPT !.count = 1, !.visible = TRUE] ELSE NoNode],
     [s \in Selectors |->
        IF s = "#a" THEN [NoNode EXCEPT !.count = 1, !.visible = TRUE]
        ELSE [NoNode EXCEPT !.count = 1]]}

\* navigate_to .. get_page_title: one call of the page's method of the same
\* purpose; its value is returned and its error propagates.
PageCall ==
    \E o \in PageOps, T \in Timeouts :
        /\ pc = "idle"
        /\ pc' = "done"
        /\ op' = o
        /\ timeout' = IF o \in TimedPageOps THEN T ELSE 0
        /\ \/ /\ o \in LoadOps
              /\ dom' \in Documents
              /\ outcome' \in {Ret(None), Raise("TimeoutError")}
           \/ /\ o \in WaitPageOps
              /\ dom' = dom
              /\ outcome' \in {Ret(IF o = "wait_for_function" THEN "JSHandle" ELSE None),
                               Raise("TimeoutError")}
           \/ /\ o = "execute_script"
              /\ dom' \in {dom, EmptyDocument}
              /\ outcome' = Ret("value")
           \/ /\ o \in ReadPageOps
              /\ dom' = dom
              /\ outcome' = Ret("str")
        /\ touched' = FALSE
        /\ prev' = NoPrev
        /\ SelfStep(o)
        /\ UNCHANGED <<sel, wstate, locator, handle, wphase, elapsed, expElapsed,
                       checkedRead, issued, metAt, everMet, now, files, shot>>

----------------------------------------------------------------------------
(* take_screenshot: strings are sequences of characters *)

Digits == <<"0", "1", "2", "3", "4", "5", "6", "7", "8", "9">>

Digit(n) == Digits[(n % 10) + 1]

\* strftime's two-digit fields (%m %d %H %M %S): zero-padded.
Pad2(n) == <<Digit(n \div 10), Digit(n)>>

\* strftime's %Y.
Pad4(n) == <<Digit(n \div 1000), Digit(n \div 100), Digit(n \div 10), Digit(n)>>

\* datetime.now().strftime("%Y%m%d_%H%M%S")
Strftime(t) ==
    Pad4(t.Y) \o Pad2(t.M) \o Pad2(t.D) \o <<"_">> \o Pad2(t.h) \o Pad2(t.m)
        \o Pad2(t.s)

ScreenshotPrefix == <<"s", "c", "r", "e", "e", "n", "s", "h", "o", "t", "_">>

PngSuffix == <<".", "p", "n", "g">>

NoName == [some |-> FALSE, s |-> << >>]

Str(chars) == [some |-> TRUE, s |-> chars]

\* Python truth value of the `name` argument: None and "" are false.
Truthy(name) == name.some /\ name.s # << >>

\* Variant: filename = name, without the fallback.
FilenameNoFallback(name, t) == name.s

\* filename = name or f"screenshot_{timestamp}"
Filename(name, t) ==
    IF Truthy(name) THEN name.s ELSE ScreenshotPrefix \o Strftime(t)

\* os.path.join(a, b) on POSIX.
PathJoin(a, b) ==
    IF b # << >> /\ b[1] = "/" THEN b
    ELSE IF a = << >> \/ a[Len(a)] = "/" THEN a \o b
    ELSE a \o <<"/">> \o b

\* filepath = os.path.join(self.screenshots_dir, f"{filename}.png")
Filepath(dir, name, t) == PathJoin(dir, Filename(name, t) \o PngSuffix)

DefaultDir == <<"s", "c", "r", "e", "e", "n", "s", "h", "o", "t", "s">>

Dirs == {DefaultDir, <<"o", "u", "t", "/">>, << >>}

Names == {NoName, Str(<< >>), Str(<<"a">>), Str(<<"/", "t">>)}

Times ==
    << [Y |-> 2026, M |-> 1, D |-> 9, h |-> 0, m |-> 7, s |-> 5],
       [Y |-> 2026, M |-> 11, D |-> 4, h |-> 9, m |-> 30, s |-> 0],
       [Y |-> 2027, M |-> 12, D |-> 31, h |-> 23, m |-> 59, s |-> 59] >>

NoShot == [called |-> FALSE, name |-> NoName, full_page |-> FALSE, path |-> << >>,
           at |-> Times[1]]

\* take_screenshot(name, full_page)
TakeScreenshot ==
    \E name \in Names, full \in BOOLEAN :
        LET filepath == Filepath(screenshots_dir, name, now) IN
        /\ pc = "idle"
        /\ filepath \in files \/ Cardinality(files) < MaxFiles
        /\ files' = files \cup {filepath}
        /\ shot' = [called |-> TRUE, name |-> name, full_page |-> full,
                    path |-> filepath, at |-> now]
        /\ SelfStep("take_screenshot")
        /\ UNCHANGED <<dom, callVars, touched, now>>

\* The wall clock moves on between two calls.
ClockTick ==
    /\ pc = "idle"
    /\ \E i, j \in 1..Len(Times) : i < j /\ now = Times[i] /\ now' = Times[j]
    /\ UNCHANGED <<dom, callVars, touched, page, screenshots_dir, files, shot>>

----------------------------------------------------------------------------
(* Specifications *)

\* The element methods over a page that attaches, detaches, shows, hides and
\* toggles nodes.
Init ==
    /\ InitCall
    /\ dom = [s \in Selectors |-> NoNode]
    /\ page = ThePage
    /\ screenshots_dir = DefaultDir
    /\ now = Times[1]
    /\ files = {}
    /\ shot = NoShot

Progress ==
    \/ Locate
    \/ WaitReturn
    \/ WaitTimeout
    \/ Act
    \/ ActDirect
    \/ ToggleCmd

Next ==
    \/ InvokeWait
    \/ InvokeAction
    \/ InvokeToggle
    \/ InvokeProbe
    \/ InvokeCount
    \/ Locate
    \/ Tick(MainFields)
    \/ WaitReturn
    \/ WaitTimeout
    \/ Act
    \/ ActDirect
    \/ ToggleCmd
    \/ Return
    \/ PageChange(MainFields)

Spec == Init /\ [][Next]_vars

\* A call in progress keeps running: the engine's polling and the caller's
\* statements are not suspended forever.
FairSpec ==
    Spec /\ WF_vars(Progress) /\ WF_vars(Tick(MainFields))

\* The assertions over a page that also enables, disables and rewrites nodes.
NextAssert ==
    \/ InvokeAssert
    \/ Locate
    \/ Tick(AllFields)
    \/ WaitReturn
    \/ WaitTimeout
    \/ ExpectAfterWait
    \/ ExpectDirect
    \/ ExpectPass
    \/ ExpectTick(AllFields)
    \/ ExpectFail
    \/ Return
    \/ PageChange(AllFields)

SpecAssert == Init /\ [][NextAssert]_vars

\* The element methods and the assertions together, over the page of Spec.
NextAll ==
    \/ Next
    \/ InvokeAssert
    \/ ExpectAfterWait
    \/ ExpectDirect
    \/ ExpectPass
    \/ ExpectTick(MainFields)
    \/ ExpectFail

SpecAll == Init /\ [][NextAll]_vars

\* The element methods over a page whose locate and wait calls may also fail
\* with an error that is not a timeout.
NextFault ==
    \/ Next
    \/ LocateError
    \/ WaitError

SpecFault == Init /\ [][NextFault]_vars

\* take_screenshot for every directory and clock reading.
InitShot ==
    /\ InitCall
    /\ dom = [s \in Selectors |-> NoNode]
    /\ page = ThePage
    /\ screenshots_dir \in Dirs
    /\ now \in {Times[i] : i \in 1..Len(Times)}
    /\ files = {}
    /\ shot = NoShot

NextShot ==
    \/ TakeScreenshot
    \/ ClockTick

SpecShot == InitShot /\ [][NextShot]_vars

\* One more instant of locator.wait_for / expect(...) on a page that is not
\* changing the DOM by itself.
QuietTick == Tick(MainFields) /\ dom' = dom

QuietExpectTick == ExpectTick(MainFields) /\ dom' = dom

\* Every method of the helper, on a page whose DOM changes only by
\* navigation, by a script the helper runs and by the helper's toggles.
NextHelper ==
    \/ InvokeWait
    \/ InvokeAction
    \/ InvokeToggle
    \/ InvokeProbe
    \/ InvokeCount
    \/ InvokeAssert
    \/ Locate
    \/ QuietTick
    \/ WaitReturn
    \/ WaitTimeout
    \/ Act
    \/ ActDirect
    \/ ToggleCmd
    \/ ExpectAfterWait
    \/ ExpectDirect
    \/ ExpectPass
    \/ QuietExpectTick
    \/ ExpectFail
    \/ Return
    \/ PageCall
    \/ TakeScreenshot

SpecHelper == Init /\ [][NextHelper]_vars

----------------------------------------------------------------------------
(* Properties *)

IssuedCommands == {r.cmd : r \in issued}

\* C1: an action primitive (safe_click .. press_key, scroll_to_element, the
\* two toggles) invokes a method of the locator only after wait_for_element
\* has returned, in this same call, the locator of this call's selector: the
\* awaited state was seen within the timeout, and nothing is invoked while
\* the wait is unresolved or after it timed out.
C1_ActsOnlyAfterWait ==
    op \in ActionOps \cup ToggleOps =>
        \A r \in issued :
            /\ wphase = "Resolved"
            /\ r.on = sel
            /\ handle = sel
            /\ metAt # -1
            /\ metAt <= timeout

\* C1 witness: hover_element has hovered after its wait polled for a while.
C1_Witness ==
    /\ pc = "done"
    /\ op = "hover_element"
    /\ elapsed > 0
    /\ [cmd |-> "hover", on |-> sel] \in issued

\* C2: wait_for_element returns the locator when the element reaches the
\* state at an instant before the timeout, and returns at that instant; it
\* raises TimeoutError, at the timeout, when the element has not reached the
\* state by then; and whenever it returns, the state was reached within the
\* timeout.
C2_WaitReturnsOrTimesOut ==
    pc = "done" /\ op = "wait_for_element" =>
        /\ (metAt # -1 /\ metAt < timeout) =>
               (outcome = Ret("Locator") /\ handle = sel /\ elapsed = metAt)
        /\ metAt = -1 => (outcome = Raise("TimeoutError") /\ elapsed = timeout)
        /\ outcome.kind = "return" => (metAt # -1 /\ metAt <= timeout)
        /\ outcome.kind \in {"return", "raise"}

\* C2 witness: the element became visible after the wait had begun, before
\* the timeout, and the locator was returned.
C2_Witness ==
    /\ pc = "done"
    /\ op = "wait_for_element"
    /\ wstate = "visible"
    /\ metAt > 0
    /\ metAt < timeout
    /\ outcome = Ret("Locator")

\* C3: check_checkbox invokes check() only when is_checked() returned False;
\* and a check_checkbox that follows a check_checkbox of the same visible
\* checkbox, the page unchanged in between, returns normally, invokes no
\* check() and leaves the box checked.
C3_CheckIdempotent ==
    /\ (op = "check_checkbox" /\ "check" \in IssuedCommands) => ~checkedRead
    /\ ( /\ pc = "done"
         /\ op = "check_checkbox"
         /\ prev = [op |-> "check_checkbox", sel |-> sel]
         /\ ~touched )
       => ( /\ outcome = Ret(None)
            /\ "check" \notin IssuedCommands
            /\ dom[sel].checked )

\* C3 witness: the second of two check_checkbox calls in succession has ended.
C3_Witness ==
    /\ pc = "done"
    /\ op = "check_checkbox"
    /\ prev = [op |-> "check_checkbox", sel |-> sel]
    /\ ~touched
    /\ outcome = Ret(None)

\* C4: uncheck_checkbox invokes uncheck() only when is_checked() returned
\* True; and an uncheck_checkbox that follows an uncheck_checkbox of the same
\* visible checkbox, the page unchanged in between, returns normally, invokes
\* no uncheck() and leaves the box unchecked.
C4_UncheckIdempotent ==
    /\ (op = "uncheck_checkbox" /\ "uncheck" \in IssuedCommands) => checkedRead
    /\ ( /\ pc = "done"
         /\ op = "uncheck_checkbox"
         /\ prev = [op |-> "uncheck_checkbox", sel |-> sel]
         /\ ~touched )
       => ( /\ outcome = Ret(None)
            /\ "uncheck" \notin IssuedCommands
            /\ ~dom[sel].checked )

\* C4 witness: the second of two uncheck_checkbox calls in succession has ended.
C4_Witness ==
    /\ pc = "done"
    /\ op = "uncheck_checkbox"
    /\ prev = [op |-> "uncheck_checkbox", sel |-> sel]
    /\ ~touched
    /\ outcome = Ret(None)

\* C5: is_element_visible and is_element_present end by returning True or
\* False, never by raising: True when the wait returned, False when it
\* timed out.
C5_ProbesNeverRaise ==
    pc = "done" /\ op \in ProbeOps =>
        /\ outcome.kind = "return"
        /\ outcome.val \in {"True", "False"}
        /\ wphase = "Resolved" => outcome.val = "True"
        /\ wphase = "TimedOut" => outcome.val = "False"

\* C5 witness: is_element_present has returned False after its wait timed out.
C5_Witness ==
    /\ pc = "done"
    /\ op = "is_element_present"
    /\ wphase = "TimedOut"
    /\ elapsed = timeout
    /\ outcome = Ret("False")

\* C6: when the wait times out, every method but the two probes ends by
\* raising that TimeoutError, and the two probes end by returning False.
C6_TimeoutPropagates ==
    pc = "done" /\ wphase = "TimedOut" =>
        IF op \in {"is_element_visible", "is_element_present"}
        THEN outcome = Ret("False")
        ELSE outcome = Raise("TimeoutError")

\* C6 witness: get_text has raised the TimeoutError of its wait.
C6_Witness ==
    /\ pc = "done"
    /\ op = "get_text"
    /\ wphase = "TimedOut"
    /\ outcome = Raise("TimeoutError")

\* C7 (as claimed): an assertion called with timeout T on an element whose
\* expected condition is never met raises AssertionError after T of polling.
C7_AssertFailsAfterTimeout ==
    pc = "done" /\ op \in AssertOps /\ ~everMet =>
        /\ outcome = Raise("AssertionError")
        /\ elapsed + expElapsed = timeout

\* C8: count_elements returns the number of nodes the selector matches when
\* it is called, 0 included, without waiting.
C8_CountWithoutWait ==
    pc = "done" /\ op = "count_elements" =>
        /\ outcome = RetNum(dom[sel].count)
        /\ elapsed = 0
        /\ wphase = None
        /\ ~touched

\* C8 witness: count_elements has returned 0 for a selector matching nothing.
C8_Witness ==
    /\ pc = "done"
    /\ op = "count_elements"
    /\ dom[sel].count = 0
    /\ outcome = RetNum(0)

IsPrefix(a, b) == Len(a) <= Len(b) /\ SubSeq(b, 1, Len(a)) = a

IsSuffix(a, b) == Len(a) <= Len(b) /\ SubSeq(b, Len(b) - Len(a) + 1, Len(b)) = a

\* path is the file `file` directly under the directory `dir`.
Under(dir, file, path) ==
    /\ IsPrefix(dir, path)
    /\ IsSuffix(file, path)
    /\ \/ Len(path) = Len(dir) + Len(file)
          /\ (dir = << >> \/ dir[Len(dir)] = "/")
       \/ Len(path) = Len(dir) + Len(file) + 1
          /\ path[Len(dir) + 1] = "/"

IsDigit(c) == \E i \in 1..10 : Digits[i] = c

DigitVal(c) == (CHOOSE i \in 1..10 : Digits[i] = c) - 1

NumVal(f, i, j) ==
    LET RECURSIVE go(_, _)
        go(k, acc) == IF k > j THEN acc ELSE go(k + 1, acc * 10 + DigitVal(f[k]))
    IN go(i, 0)

\* f is screenshot_YYYYMMDD_HHMMSS for the clock reading t.
IsStampName(f, t) ==
    /\ Len(f) = 26
    /\ SubSeq(f, 1, 11) = ScreenshotPrefix
    /\ \A i \in (12..19) \cup (21..26) : IsDigit(f[i])
    /\ f[20] = "_"
    /\ NumVal(f, 12, 15) = t.Y
    /\ NumVal(f, 16, 17) = t.M
    /\ NumVal(f, 18, 19) = t.D
    /\ NumVal(f, 21, 22) = t.h
    /\ NumVal(f, 23, 24) = t.m
    /\ NumVal(f, 25, 26) = t.s

\* The file name of the path p, without its directory and its .png suffix.
Stem(p, dir) ==
    LET from == IF p[Len(dir) + 1] = "/" THEN Len(dir) + 2 ELSE Len(dir) + 1
    IN SubSeq(p, from, Len(p) - Len(PngSuffix))

\* C9 (as claimed): take_screenshot with no name writes and returns
\* <screenshots_dir>/screenshot_YYYYMMDD_HHMMSS.png, and with a name supplied
\* returns <screenshots_dir>/<name>.png.
C9_PathAsClaimed ==
    shot.called =>
        /\ shot.path \in files
        /\ IF shot.name.some
           THEN Under(screenshots_dir, shot.name.s \o PngSuffix, shot.path)
           ELSE /\ Under(screenshots_dir,
                         Stem(shot.path, screenshots_dir) \o PngSuffix, shot.path)
                /\ IsStampName(Stem(shot.path, screenshots_dir), shot.at)

\* C9 (amended): take_screenshot with no name, or with the empty name, writes
\* and returns <screenshots_dir>/screenshot_YYYYMMDD_HHMMSS.png for the clock
\* reading of the call; with a non-empty name that is not an absolute path it
\* writes and returns <screenshots_dir>/<name>.png.
C9_ScreenshotPath ==
    shot.called =>
        /\ shot.path \in files
        /\ (shot.name.some /\ shot.name.s # << >> /\ shot.name.s[1] # "/") =>
               Under(screenshots_dir, shot.name.s \o PngSuffix, shot.path)
        /\ (~shot.name.some \/ shot.name.s = << >>) =>
               /\ Under(screenshots_dir,
                        Stem(shot.path, screenshots_dir) \o PngSuffix, shot.path)
               /\ IsStampName(Stem(shot.path, screenshots_dir), shot.at)

\* C9 witness: take_screenshot() without a name has written its file.
C9_Witness ==
    /\ shot.called
    /\ ~shot.name.some
    /\ shot.path \in files
    /\ Len(shot.path) > Len(screenshots_dir) + 26

WaitBoundedOps == ElementOps \ {"count_elements"}

PhaseSteps ==
    { <<None, "Unresolved">>, <<"Unresolved", "Polling">>,
      <<"Polling", "Resolved">>, <<"Polling", "TimedOut">>,
      <<"Resolved", None>>, <<"TimedOut", None>> }

\* C10: the wait of a call moves Unresolved -> Polling -> Resolved or
\* TimedOut and in no other way; a call that has been invoked always gets to
\* hand control back; when it does, its wait is Resolved or TimedOut, never
\* Unresolved or Polling; and a call whose wait timed out has invoked no
\* method of the locator and has left the page as it found it.
C10_CallMachine ==
    /\ [](pc = "done" /\ op \in WaitBoundedOps => wphase \in {"Resolved", "TimedOut"})
    /\ [](wphase = "TimedOut" => pc = "done" /\ issued = {} /\ handle = None)
    /\ [](wphase = "Resolved" => handle = sel)
    /\ [][wphase' # wphase => <<wphase, wphase'>> \in PhaseSteps]_vars
    /\ [][wphase' = "TimedOut" => dom' = dom]_vars
    /\ (pc = "called" ~> pc = "done")

\* C10 witness: check_checkbox has handed control back with its wait timed
\* out, having invoked nothing.
C10_Witness ==
    /\ pc = "done"
    /\ op = "check_checkbox"
    /\ wphase = "TimedOut"
    /\ issued = {}

\* C11: no locator outlives the call that resolved it.  Between two calls and
\* on entry to a call the helper holds no locator; the locator a call holds
\* is the one page.locator made in this call from this call's selector; and
\* every Locator method a call invokes, and every expect(...) it runs, is on
\* that locator, whatever the page did to the DOM in between.
C11_NoStaleLocator ==
    /\ pc \in {"idle", "called"} => (locator = None /\ handle = None)
    /\ locator # None => locator = sel
    /\ handle # None => handle = locator
    /\ pc \in {"resolved", "read", "expecting"} => locator = sel
    /\ \A r \in issued : r.on = sel /\ r.on = locator

\* C11 witness: uncheck_checkbox has unchecked one selector right after a
\* check_checkbox of the other one, the page having changed during the call.
C11_Witness ==
    /\ pc = "done"
    /\ op = "uncheck_checkbox"
    /\ prev.op = "check_checkbox"
    /\ prev.sel # sel
    /\ touched
    /\ [cmd |-> "uncheck", on |-> sel] \in issued

\* C12: after construction no method changes the helper: self.page and
\* self.screenshots_dir are the same after every step of every wait, action,
\* probe, page call, screenshot and assertion; and no timeout is kept: a
\* wait that timed out, or an expect that failed, ran for the timeout of its
\* own call, and between two calls the helper holds none.
C12_HelperUnchanged ==
    /\ [][page' = page /\ screenshots_dir' = screenshots_dir]_vars
    /\ [](pc = "idle" => timeout = 0)
    /\ [](wphase = "TimedOut" => (elapsed = timeout /\ timeout \in Timeouts))
    /\ []((pc = "done" /\ outcome = Raise("AssertionError")) =>
            (expElapsed = timeout /\ timeout \in Timeouts))

\* C12 witness: with a screenshot taken and a document loaded, a call with
\* timeout 1 has just timed out or failed, and the helper is as constructed.
C12_Witness ==
    /\ shot.called
    /\ files # {}
    /\ dom # EmptyDocument
    /\ pc = "done"
    /\ op \in AssertOps \cup ActionOps \cup ProbeOps
    /\ (wphase = "TimedOut" \/ outcome = Raise("AssertionError"))
    /\ timeout = 1
    /\ page = ThePage
    /\ screenshots_dir = DefaultDir

\* C13: is_element_visible (is_element_present) has returned True exactly
\* when its wait_for_element call for state visible (attached) returned the
\* locator, and has returned False when that call failed: after a timeout
\* and after any other error alike, so that the caller sees the same value
\* and never an exception.
C13_ProbeTrueIffWaitReturned ==
    (pc = "done" /\ op \in ProbeOps) =>
        /\ wstate = (IF op = "is_element_visible" THEN "visible" ELSE "attached")
        /\ outcome \in {Ret("True"), Ret("False")}
        /\ outcome = Ret("True") <=> (wphase = "Resolved" /\ handle = sel)
        /\ wphase \in {"Resolved", "TimedOut", "Failed"}
        /\ wphase \in {"TimedOut", "Failed"} => outcome = Ret("False")
        /\ wphase = "Resolved" => metAt # -1

\* C13 witness: is_element_present has returned False after its wait failed
\* with an error that is not a timeout, before the budget was used up.
C13_Witness ==
    /\ pc = "done"
    /\ op = "is_element_present"
    /\ wphase = "Failed"
    /\ locator = sel
    /\ elapsed < timeout
    /\ outcome = Ret("False")

====
